---- MODULE Spec2Model ----
(***************************************************************************)
(* J1939 CAN identifier codec (src/main.py): parse_j1939_id decodes a raw  *)
(* identifier into its bit fields and the derived PGN, build_j1939_id      *)
(* packs priority / PGN / source address / reserved into an identifier.    *)
(* Python integers are unbounded and two's complement under >>, & and |;   *)
(* the bit operators below follow that arithmetic (floor shift, sign       *)
(* extension) so that negative and oversized inputs behave as in Python.   *)
(***************************************************************************)
EXTENDS Integers, FiniteSets, Sequences, TLC

VARIABLES mode, can_id, args, components, rebuilt

vars == <<mode, can_id, args, components, rebuilt>>

----------------------------------------------------------------------------
(* Bounds of the explored input space.                                     *)

\* how many values next to the 239/240 boundary and next to 0 and 255 are sampled
Near == 1
\* how far outside its native width a field argument may lie
MaxOver == 1
\* multiples of 2^29 (can_id) or 2^17 (pgn) added above the meaningful bits
MaxHigh == 1

----------------------------------------------------------------------------
(* Python integer bit operators.                                           *)

\* x >> n : arithmetic shift, i.e. floor division by 2^n
Shr(x, n) == x \div (2 ^ n)

\* x << n
Shl(x, n) == x * (2 ^ n)

RECURSIVE BitAnd(_, _)
\* a & b on two's complement integers of unbounded width
BitAnd(a, b) ==
    IF a = 0 \/ b = 0 THEN 0
    ELSE IF a = -1 THEN b
    ELSE IF b = -1 THEN a
    ELSE ((a % 2) * (b % 2)) + 2 * BitAnd(a \div 2, b \div 2)

RECURSIVE BitOr(_, _)
\* a | b on two's complement integers of unbounded width
BitOr(a, b) ==
    IF a = 0 THEN b
    ELSE IF b = 0 THEN a
    ELSE IF a = -1 \/ b = -1 THEN -1
    ELSE (IF (a % 2) = 1 \/ (b % 2) = 1 THEN 1 ELSE 0)
         + 2 * BitOr(a \div 2, b \div 2)

----------------------------------------------------------------------------
(* parse_j1939_id                                                          *)

parse_priority_nomask(cid) == Shr(cid, 26)

parse_priority(cid) == BitAnd(Shr(cid, 26), 7)

parse_reserved(cid) == BitAnd(Shr(cid, 25), 1)

parse_data_page(cid) == BitAnd(Shr(cid, 24), 1)

parse_pdu_format_mask7F(cid) == BitAnd(Shr(cid, 16), 127)

parse_pdu_format(cid) == BitAnd(Shr(cid, 16), 255)

parse_pdu_specific_mask7F(cid) == BitAnd(Shr(cid, 8), 127)

parse_pdu_specific(cid) == BitAnd(Shr(cid, 8), 255)

parse_source_address(cid) == BitAnd(cid, 255)

\* boundary moved: 240 itself treated as PDU1
parse_pgn_le240(data_page, pdu_format, pdu_specific) ==
    IF pdu_format <= 240
    THEN BitOr(Shl(data_page, 16), Shl(pdu_format, 8))
    ELSE BitOr(BitOr(Shl(data_page, 16), Shl(pdu_format, 8)), pdu_specific)

\* branch lost: pdu_specific always folded into the PGN
parse_pgn_nobranch(data_page, pdu_format, pdu_specific) ==
    BitOr(BitOr(Shl(data_page, 16), Shl(pdu_format, 8)), pdu_specific)

parse_pgn(data_page, pdu_format, pdu_specific) ==
    IF pdu_format < 240
    THEN BitOr(Shl(data_page, 16), Shl(pdu_format, 8))
    ELSE BitOr(BitOr(Shl(data_page, 16), Shl(pdu_format, 8)), pdu_specific)

parse_j1939_id(cid) ==
    LET priority       == parse_priority(cid)
        reserved       == parse_reserved(cid)
        data_page      == parse_data_page(cid)
        pdu_format     == parse_pdu_format(cid)
        pdu_specific   == parse_pdu_specific(cid)
        source_address == parse_source_address(cid)
    IN  [priority       |-> priority,
         reserved       |-> reserved,
         data_page      |-> data_page,
         pdu_format     |-> pdu_format,
         pdu_specific   |-> pdu_specific,
         source_address |-> source_address,
         pgn            |-> parse_pgn(data_page, pdu_format, pdu_specific)]

----------------------------------------------------------------------------
(* build_j1939_id                                                          *)

build_priority_nomask(priority) == priority

build_priority(priority) == BitAnd(priority, 7)

build_reserved(reserved) == BitAnd(reserved, 1)

build_source_address_nomask(source_address) == source_address

build_source_address(source_address) == BitAnd(source_address, 255)

build_data_page_bit17(pgn) == BitAnd(Shr(pgn, 17), 1)

build_data_page(pgn) == BitAnd(Shr(pgn, 16), 1)

build_pdu_format(pgn) == BitAnd(Shr(pgn, 8), 255)

\* PDU1 convention enforced by mistake: the low byte never reaches the identifier
build_pdu_specific_zero(pgn) == 0

build_pdu_specific(pgn) == BitAnd(pgn, 255)

\* second assignment (can_id |= ...) forgets the pdu_specific byte
build_j1939_id_nospecific(priority, pgn, source_address, reserved) ==
    LET p  == build_priority(priority)
        r  == build_reserved(reserved)
        sa == build_source_address(source_address)
        dp == build_data_page(pgn)
        pf == build_pdu_format(pgn)
        c1 == BitOr(BitOr(BitOr(Shl(p, 26), Shl(r, 25)), Shl(dp, 24)), Shl(pf, 16))
    IN  BitOr(c1, sa)

build_j1939_id(priority, pgn, source_address, reserved) ==
    LET p  == build_priority(priority)
        r  == build_reserved(reserved)
        sa == build_source_address(source_address)
        dp == build_data_page(pgn)
        pf == build_pdu_format(pgn)
        ps == build_pdu_specific(pgn)
        c1 == BitOr(BitOr(BitOr(Shl(p, 26), Shl(r, 25)), Shl(dp, 24)), Shl(pf, 16))
    IN  BitOr(c1, BitOr(Shl(ps, 8), sa))

----------------------------------------------------------------------------
(* Inputs handed over by the command line.                                 *)

\* PDU format bytes: the ends of the range and both sides of the 240 boundary
FormatSamples == {0, 255} \cup ((239 - Near) .. (240 + Near))

\* PDU specific bytes: both ends of the byte range
SpecificSamples == (0 .. Near) \cup ((255 - Near) .. 255)

\* source addresses inside the byte range
AddressSamples == (0 .. Near) \cup ((255 - Near) .. 255)

HighSamples == (0 - MaxHigh) .. MaxHigh

\* integers given to --parse: 29 meaningful bits plus bits above bit 28
\* (negative multiples give negative identifiers)
CanIdInputs ==
    { h * (2 ^ 29) + p * (2 ^ 26) + r * (2 ^ 25) + dp * (2 ^ 24)
        + pf * (2 ^ 16) + ps * (2 ^ 8) + sa :
        h \in HighSamples, p \in 0 .. 7, r \in 0 .. 1, dp \in 0 .. 1,
        pf \in FormatSamples, ps \in SpecificSamples, sa \in AddressSamples }

\* integers given to --pgn: 17 meaningful bits plus bits above bit 16
PgnInputs ==
    { h * (2 ^ 17) + dp * (2 ^ 16) + pf * (2 ^ 8) + ps :
        h \in HighSamples, dp \in 0 .. 1,
        pf \in FormatSamples, ps \in SpecificSamples }

PriorityInputs == (0 - MaxOver) .. (7 + MaxOver)

ReservedInputs == (0 - MaxOver) .. (1 + MaxOver)

AddressInputs == ((0 - MaxOver) .. MaxOver) \cup ((255 - MaxOver) .. (255 + MaxOver))

NoComponents ==
    [priority |-> 0, reserved |-> 0, data_page |-> 0, pdu_format |-> 0,
     pdu_specific |-> 0, source_address |-> 0, pgn |-> 0]

NoArgs == [priority |-> 0, pgn |-> 0, source_address |-> 0, reserved |-> 0]

----------------------------------------------------------------------------
(* The program.                                                            *)

Init ==
    /\ mode = "start"
    /\ can_id = 0
    /\ args = NoArgs
    /\ components = NoComponents
    /\ rebuilt = 0

\* main, --parse CAN_ID
ParseMode ==
    /\ mode = "start"
    /\ \E cid \in CanIdInputs :
          /\ can_id' = cid
          /\ components' = parse_j1939_id(cid)
    /\ mode' = "parsed"
    /\ UNCHANGED <<args, rebuilt>>

\* main, --generate: build the identifier, then parse it back for display
GenerateMode ==
    /\ mode = "start"
    /\ \E priority \in PriorityInputs, pgn \in PgnInputs,
          source_address \in AddressInputs, reserved \in ReservedInputs :
          /\ args' = [priority |-> priority, pgn |-> pgn,
                      source_address |-> source_address, reserved |-> reserved]
          /\ can_id' = build_j1939_id(priority, pgn, source_address, reserved)
          /\ components' = parse_j1939_id(can_id')
    /\ mode' = "generated"
    /\ UNCHANGED rebuilt

\* build_j1939_id applied to a decoded record (decode followed by encode)
Reencode ==
    /\ mode = "parsed"
    /\ rebuilt' = build_j1939_id(components.priority, components.pgn,
                                 components.source_address, components.reserved)
    /\ mode' = "reencoded"
    /\ UNCHANGED <<can_id, args, components>>

Next == ParseMode \/ GenerateMode \/ Reencode

Spec == Init /\ [][Next]_vars

----------------------------------------------------------------------------
(* Properties.                                                             *)

\* the pdu_format byte of a PGN argument
PgnFormat(pgn) == BitAnd(Shr(pgn, 8), 255)

\* the encode reassembly formula applied to the six primitive fields of a record
Reassemble(d) ==
    BitOr(BitOr(BitOr(BitOr(BitOr(Shl(d.priority, 26), Shl(d.reserved, 25)),
                            Shl(d.data_page, 24)),
                      Shl(d.pdu_format, 16)),
                Shl(d.pdu_specific, 8)),
          d.source_address)

InRange29(x) == x >= 0 /\ x < 2 ^ 29

\* C1: for every can_id in [0, 2^29) the six primitive fields returned by
\* parse_j1939_id recombine, under the reassembly formula, to can_id itself.
C1_FieldsRecombine ==
    (mode = "parsed" /\ InRange29(can_id)) => Reassemble(components) = can_id

C1_Witness ==
    /\ mode = "parsed"
    /\ InRange29(can_id)
    /\ components.priority = 7
    /\ components.reserved = 1
    /\ components.data_page = 1
    /\ components.pdu_format = 239
    /\ components.pdu_specific = 255
    /\ components.source_address = 254

\* C2: the PGN returned by parse_j1939_id follows the PDU1/PDU2 rule on the
\* extracted fields, 240 itself taking the PDU2 branch.
C2_PgnRule ==
    mode \in {"parsed", "generated", "reencoded"} =>
        LET d == components
            base == d.data_page * 65536 + d.pdu_format * 256
        IN  /\ (d.pdu_format < 240 => d.pgn = base)
            /\ (d.pdu_format >= 240 => d.pgn = base + d.pdu_specific)

C2_Witness ==
    /\ mode = "parsed"
    /\ components.pdu_format = 240
    /\ components.pdu_specific = 255
    /\ components.data_page = 1
    /\ components.pgn = 65536 + 240 * 256 + 255

\* C3: with in-range priority, source_address and reserved and a pgn whose
\* pdu_format is >= 240, decoding the built identifier gives pgn & 0x1FFFF.
C3_Pdu2RoundTrip ==
    ( /\ mode = "generated"
      /\ args.priority \in 0 .. 7
      /\ args.source_address \in 0 .. 255
      /\ args.reserved \in 0 .. 1
      /\ PgnFormat(args.pgn) >= 240 )
    => components.pgn = BitAnd(args.pgn, 2 ^ 17 - 1)

C3_Witness ==
    /\ mode = "generated"
    /\ args.priority = 6
    /\ args.source_address = 255
    /\ args.reserved = 1
    /\ PgnFormat(args.pgn) = 240
    /\ BitAnd(args.pgn, 255) = 254
    /\ args.pgn >= 2 ^ 17
    /\ components.pgn = args.pgn - 2 ^ 17

\* C4: for a pgn whose pdu_format is < 240, decoding the built identifier
\* gives (data_page<<16)|(pdu_format<<8), whatever the low byte of pgn.
C4_Pdu1Collapse ==
    (mode = "generated" /\ PgnFormat(args.pgn) < 240) =>
        components.pgn = BitOr(Shl(BitAnd(Shr(args.pgn, 16), 1), 16),
                               Shl(PgnFormat(args.pgn), 8))

C4_Witness ==
    /\ mode = "generated"
    /\ PgnFormat(args.pgn) = 239
    /\ BitAnd(args.pgn, 255) = 255
    /\ BitAnd(Shr(args.pgn, 16), 1) = 1
    /\ components.pgn = 65536 + 239 * 256

\* C5: masking law: build_j1939_id gives the same identifier when priority,
\* source_address and reserved are replaced by their masked values.
C5_MaskingLaw ==
    mode = "generated" =>
        can_id = build_j1939_id(BitAnd(args.priority, 7), args.pgn,
                                BitAnd(args.source_address, 255),
                                BitAnd(args.reserved, 1))

C5_Witness ==
    /\ mode = "generated"
    /\ args.priority = 8
    /\ args.source_address = 256
    /\ args.reserved = 2
    /\ PgnFormat(args.pgn) = 255
    /\ can_id = BitAnd(args.pgn, 2 ^ 17 - 1) * 256

\* C6: parse_j1939_id reads only bits 0-28: for every integer can_id, negative
\* or >= 2^29 included, the record equals that of can_id mod 2^29, and every
\* field lies in its native range.
C6_OnlyLow29Bits ==
    mode = "parsed" =>
        /\ components = parse_j1939_id(can_id % (2 ^ 29))
        /\ components.priority \in 0 .. 7
        /\ components.reserved \in 0 .. 1
        /\ components.data_page \in 0 .. 1
        /\ components.pdu_format \in 0 .. 255
        /\ components.pdu_specific \in 0 .. 255
        /\ components.source_address \in 0 .. 255

C6_Witness ==
    /\ mode = "parsed"
    /\ can_id < 0
    /\ components.priority = 5
    /\ components.pdu_format = 241
    /\ components.source_address = 1

\* C7: decoding the built identifier gives priority & 7, reserved & 1,
\* source_address & 0xFF, data_page = bit 16 of pgn and pdu_format = bits 8-15
\* of pgn, on both sides of the 240 boundary.
C7_RoundTripFields ==
    mode = "generated" =>
        /\ components.priority = BitAnd(args.priority, 7)
        /\ components.reserved = BitAnd(args.reserved, 1)
        /\ components.source_address = BitAnd(args.source_address, 255)
        /\ components.data_page = BitAnd(Shr(args.pgn, 16), 1)
        /\ components.pdu_format = BitAnd(Shr(args.pgn, 8), 255)

C7_Witness ==
    /\ mode = "generated"
    /\ args.priority = -1
    /\ args.reserved = -1
    /\ args.source_address = -1
    /\ args.pgn < 0
    /\ components.priority = 7
    /\ components.reserved = 1
    /\ components.source_address = 255
    /\ components.data_page = 1
    /\ components.pdu_format = 238

\* C8 as stated: for every input with pdu_format < 240 the round trip does not
\* reproduce both pdu_specific and a PGN identical to the input pgn.
C8_Original ==
    (mode = "generated" /\ PgnFormat(args.pgn) < 240) =>
        ~ ( /\ components.pdu_specific = BitAnd(args.pgn, 255)
            /\ components.pgn = args.pgn )

\* C8 amended: the round trip always reproduces the pdu_specific field
\* (pgn & 0xFF); the decoded PGN equals pgn & 0x1FFFF exactly when pdu_format
\* is >= 240 or the low byte of pgn is zero.
C8_SpecificKeptPgnCollapsed ==
    mode = "generated" =>
        /\ components.pdu_specific = BitAnd(args.pgn, 255)
        /\ (components.pgn = BitAnd(args.pgn, 2 ^ 17 - 1))
             <=> (PgnFormat(args.pgn) >= 240 \/ BitAnd(args.pgn, 255) = 0)

C8_Witness ==
    /\ mode = "generated"
    /\ PgnFormat(args.pgn) = 239
    /\ BitAnd(args.pgn, 255) = 254
    /\ components.pdu_specific = 254
    /\ components.pgn # BitAnd(args.pgn, 2 ^ 17 - 1)

\* C9: for can_id in [0, 2^29), building from the decoded priority, pgn,
\* source_address and reserved gives can_id back when pdu_format >= 240 and
\* can_id with bits 8-15 cleared when pdu_format < 240.
C9_DecodeEncode ==
    (mode = "reencoded" /\ InRange29(can_id)) =>
        IF components.pdu_format >= 240
        THEN rebuilt = can_id
        ELSE rebuilt = BitAnd(can_id, 0 - 65281)

C9_Witness ==
    /\ mode = "reencoded"
    /\ InRange29(can_id)
    /\ components.pdu_format = 239
    /\ components.pdu_specific = 255
    /\ components.priority = 7
    /\ rebuilt = can_id - 255 * 256

\* C10: build_j1939_id returns a 29-bit identifier for all integer arguments,
\* negative ones and a pgn with bits above bit 16 included.
C10_ResultIn29Bits ==
    mode = "generated" => (can_id >= 0 /\ can_id <= 536870911)

C10_Witness ==
    /\ mode = "generated"
    /\ args.priority = 8
    /\ args.source_address = -1
    /\ args.reserved = -1
    /\ args.pgn >= 2 ^ 17
    /\ can_id >= 2 ^ 25

\* Python reference values of >>, & and | on negative and wide operands
BitOpsAgreeWithPython ==
    /\ Shr(-1, 26) = -1
    /\ Shr(-536870912, 26) = -8
    /\ BitAnd(-1, 255) = 255
    /\ BitAnd(-3, 7) = 5
    /\ BitAnd(-131073, 255) = 255
    /\ BitAnd(1073741823, 0 - 65281) = 1073676543
    /\ BitOr(5, 9) = 13
    /\ BitOr(-256, 3) = -253
    /\ (-5) % (2 ^ 29) = 536870907
    /\ parse_j1939_id(419361024) =
         [priority |-> 6, reserved |-> 0, data_page |-> 0, pdu_format |-> 254,
          pdu_specific |-> 241, source_address |-> 0, pgn |-> 65265]
    /\ build_j1939_id(6, 65262, 0, 0) = 419360256
    /\ build_j1939_id(0, 256, 5, 0) = 65541

====
